---- MODULE Spec2Model ----
(***************************************************************************)
(* A model of the libdns provider for G-Core DNS (src/provider.go, the     *)
(* current revision at lines 180-485).                                     *)
(*                                                                         *)
(* Strings that the code takes apart (record names, zone names) are        *)
(* sequences of one-character strings: "w.z." is <<"w", ".", "z", ".">>.   *)
(* Record data ("10 mail.z.") is the sequence of its whitespace-separated  *)
(* fields: <<"10", "mail.z.">>.  Durations are counted in milliseconds.    *)
(***************************************************************************)
EXTENDS Integers, Sequences, FiniteSets, TLC

VARIABLES
    \* ---- the vendor (G-Core) side: the zone's RRSets in index order
    zoneRecords,
    \* ---- one Provider call in progress (sequential caller)
    op, pc, input, work, idx, acc, ret, err, log, pre, nops, lastAppend,
    \* ---- the name helpers applied to one record
    nZone, nIn, nQ, nOut, nPhase,
    \* ---- two concurrent callers on one RRSet
    cStore, cOp, cPc, cRRSet, cNotFound, cOverlap

provVars == <<zoneRecords, op, pc, input, work, idx, acc, ret, err, log, pre, nops, lastAppend>>
nameVars == <<nZone, nIn, nQ, nOut, nPhase>>
concVars == <<cStore, cOp, cPc, cRRSet, cNotFound, cOverlap>>
vars == <<provVars, nameVars, concVars>>

(***************************************************************************)
(* Bounds of the model.                                                    *)
(***************************************************************************)
MaxBatch == 2
MaxOps == 2
MaxRRLen == 4

\* time.Second, in the model's duration unit (milliseconds)
Second == 1000

(***************************************************************************)
(* strings                                                                 *)
(***************************************************************************)
HasSuffix(s, suffix) ==
    /\ Len(s) >= Len(suffix)
    /\ SubSeq(s, Len(s) - Len(suffix) + 1, Len(s)) = suffix

TrimSuffix(s, suffix) ==
    IF HasSuffix(s, suffix) THEN SubSeq(s, 1, Len(s) - Len(suffix)) ELSE s

HasPrefix(s, prefix) ==
    /\ Len(s) >= Len(prefix)
    /\ SubSeq(s, 1, Len(prefix)) = prefix

TrimPrefix(s, prefix) ==
    IF HasPrefix(s, prefix) THEN SubSeq(s, Len(prefix) + 1, Len(s)) ELSE s

\* strings.Index(s, "."): the first position of a dot, 0 when there is none
IndexDot(s) ==
    IF \E i \in 1..Len(s) : s[i] = "."
    THEN CHOOSE i \in 1..Len(s) : s[i] = "." /\ \A j \in 1..(i - 1) : s[j] # "."
    ELSE 0

\* strings.SplitN(s, ".", 3)
SplitN3(s) ==
    LET i == IndexDot(s) IN
    IF i = 0 THEN <<s>>
    ELSE LET rest == SubSeq(s, i + 1, Len(s))
             j == IndexDot(rest)
         IN IF j = 0 THEN <<SubSeq(s, 1, i - 1), rest>>
            ELSE <<SubSeq(s, 1, i - 1), SubSeq(rest, 1, j - 1), SubSeq(rest, j + 1, Len(rest))>>

\* strconv: the decimal numerals of the numbers the model uses
NumStr == <<"0", "1", "2", "3", "4", "5", "6", "7", "8", "9", "10">>
Itoa(n) == NumStr[n + 1]
IsUint(tok) == \E n \in 1..Len(NumStr) : NumStr[n] = tok
Atoi(tok) == (CHOOSE n \in 1..Len(NumStr) : NumStr[n] = tok) - 1

\* netip: the address literals of the model; the zero Addr prints "invalid IP"
IPv4s == {"1.2.3.4", "5.6.7.8", "9.9.9.9"}
IPv6s == {"::1"}
InvalidIP == "invalid IP"
Is4(ip) == ip \in IPv4s
ParseAddrOk(tok) == tok \in IPv4s \cup IPv6s

(***************************************************************************)
(* libdns: names.  AbsoluteName and RelativeName are library functions the *)
(* provider calls; they are written out here as the library computes them. *)
(* The model calls them with names that do not end in a dot.               *)
(***************************************************************************)
At == <<"@">>
Dot == <<".">>

\* strings.Trim(name, ".")
RECURSIVE TrimDots(_)
TrimDots(s) ==
    IF s # <<>> /\ Head(s) = "." THEN TrimDots(Tail(s))
    ELSE IF s # <<>> /\ s[Len(s)] = "." THEN TrimDots(SubSeq(s, 1, Len(s) - 1))
    ELSE s

AbsoluteName(name, zone) ==
    IF zone = <<>> THEN TrimDots(name)
    ELSE IF name = <<>> \/ name = At THEN zone
    ELSE IF HasSuffix(name, Dot) THEN name
    ELSE name \o Dot \o zone

RelativeName(fqdn, zone) ==
    LET rel == TrimSuffix(TrimSuffix(TrimSuffix(fqdn, Dot), TrimSuffix(zone, Dot)), Dot)
    IN IF rel = <<>> /\ fqdn # <<>> /\ zone # <<>> THEN At ELSE rel

(***************************************************************************)
(* libdns: the record shapes, Record.RR() and RR.Parse()                   *)
(***************************************************************************)
RRrec(name, ttl, type, data) ==
    [shape |-> "RR", Name |-> name, TTL |-> ttl, Type |-> type, Data |-> data]
Address(name, ttl, ip) ==
    [shape |-> "Address", Name |-> name, TTL |-> ttl, IP |-> ip]
CNAME(name, ttl, target) ==
    [shape |-> "CNAME", Name |-> name, TTL |-> ttl, Target |-> target]
TXT(name, ttl, text) ==
    [shape |-> "TXT", Name |-> name, TTL |-> ttl, Text |-> text]
MX(name, ttl, preference, target) ==
    [shape |-> "MX", Name |-> name, TTL |-> ttl, Preference |-> preference, Target |-> target]
NS(name, ttl, target) ==
    [shape |-> "NS", Name |-> name, TTL |-> ttl, Target |-> target]
SRV(name, ttl, service, transport, priority, weight, target, port) ==
    [shape |-> "SRV", Name |-> name, TTL |-> ttl, Service |-> service,
     Transport |-> transport, Priority |-> priority, Weight |-> weight,
     Target |-> target, Port |-> port]

SupportedShapes == {"Address", "CNAME", "TXT", "MX", "NS", "SRV"}
SupportedTypes == {"A", "AAAA", "CNAME", "TXT", "MX", "NS", "SRV"}

\* SRV.RR(): the name is "_service._transport", then ".name" unless at the apex
SRVName(r) ==
    LET base == <<"_">> \o r.Service \o <<".", "_">> \o r.Transport
    IN IF r.Name = <<>> \/ r.Name = At THEN base ELSE base \o Dot \o r.Name

\* Record.RR()
RR(r) ==
    CASE r.shape = "RR" ->
            [Name |-> r.Name, TTL |-> r.TTL, Type |-> r.Type, Data |-> r.Data]
      [] r.shape = "Address" ->
            [Name |-> r.Name, TTL |-> r.TTL,
             Type |-> IF Is4(r.IP) THEN "A" ELSE "AAAA", Data |-> <<r.IP>>]
      [] r.shape = "CNAME" ->
            [Name |-> r.Name, TTL |-> r.TTL, Type |-> "CNAME", Data |-> r.Target]
      [] r.shape = "TXT" ->
            [Name |-> r.Name, TTL |-> r.TTL, Type |-> "TXT", Data |-> r.Text]
      [] r.shape = "MX" ->
            [Name |-> r.Name, TTL |-> r.TTL, Type |-> "MX",
             Data |-> <<Itoa(r.Preference)>> \o r.Target]
      [] r.shape = "NS" ->
            [Name |-> r.Name, TTL |-> r.TTL, Type |-> "NS", Data |-> r.Target]
      [] r.shape = "SRV" ->
            [Name |-> SRVName(r), TTL |-> r.TTL, Type |-> "SRV",
             Data |-> <<Itoa(r.Priority), Itoa(r.Weight), Itoa(r.Port)>> \o r.Target]

\* RR.Parse(): [ok |-> FALSE] is the error return.  The types outside the six
\* shapes parse to a value that none of the callers' branches matches (CAA,
\* HTTPS, SVCB) or to the RR itself (any other type).
Parse(rr) ==
    CASE rr.Type \in {"A", "AAAA"} ->
            IF Len(rr.Data) = 1 /\ ParseAddrOk(rr.Data[1])
            THEN [ok |-> TRUE, rec |-> Address(rr.Name, rr.TTL, rr.Data[1])]
            ELSE [ok |-> FALSE]
      [] rr.Type = "CNAME" -> [ok |-> TRUE, rec |-> CNAME(rr.Name, rr.TTL, rr.Data)]
      [] rr.Type = "TXT" -> [ok |-> TRUE, rec |-> TXT(rr.Name, rr.TTL, rr.Data)]
      [] rr.Type = "MX" ->
            IF Len(rr.Data) = 2 /\ IsUint(rr.Data[1])
            THEN [ok |-> TRUE,
                  rec |-> MX(rr.Name, rr.TTL, Atoi(rr.Data[1]), <<rr.Data[2]>>)]
            ELSE [ok |-> FALSE]
      [] rr.Type = "NS" -> [ok |-> TRUE, rec |-> NS(rr.Name, rr.TTL, rr.Data)]
      [] rr.Type = "SRV" ->
            LET parts == SplitN3(rr.Name) IN
            IF /\ Len(rr.Data) = 4
               /\ \A k \in 1..3 : IsUint(rr.Data[k])
               /\ Len(parts) >= 2
            THEN [ok |-> TRUE,
                  rec |-> SRV(IF Len(parts) = 3 THEN parts[3] ELSE At, rr.TTL,
                              TrimPrefix(parts[1], <<"_">>), TrimPrefix(parts[2], <<"_">>),
                              Atoi(rr.Data[1]), Atoi(rr.Data[2]), <<rr.Data[4]>>,
                              Atoi(rr.Data[3]))]
            ELSE [ok |-> FALSE]
      [] OTHER ->
            [ok |-> TRUE, rec |-> RRrec(rr.Name, rr.TTL, rr.Type, rr.Data)]

(***************************************************************************)
(* provider.go: qualityRecordNames and unqualifyRecordNames                *)
(***************************************************************************)
qualityRecordNames(record, zone) ==
    LET p == Parse(RR(record)) IN
    IF ~p.ok THEN record
    ELSE IF p.rec.shape \in SupportedShapes
         THEN [p.rec EXCEPT !.Name = AbsoluteName(p.rec.Name, zone)]
         ELSE record

\* a slip in the name helper: the suffix is cut but the apex is not told apart
unqualifyRecordNamesNoApex(record, zone) ==
    LET p == Parse(RR(record)) IN
    IF ~p.ok THEN record
    ELSE IF p.rec.shape \in SupportedShapes
         THEN [p.rec EXCEPT !.Name =
                  TrimSuffix(TrimSuffix(TrimSuffix(p.rec.Name, Dot), TrimSuffix(zone, Dot)), Dot)]
         ELSE record

unqualifyRecordNames(record, zone) ==
    LET p == Parse(RR(record)) IN
    IF ~p.ok THEN record
    ELSE IF p.rec.shape \in SupportedShapes
         THEN [p.rec EXCEPT !.Name = RelativeName(p.rec.Name, zone)]
         ELSE record

(***************************************************************************)
(* The vendor: the zone as the sequence of its RRSets, in index order.     *)
(* Each is [Name, Type, TTL (seconds), Records], a resource record being   *)
(* [Content, Enabled] with Content the list of its content values.  An     *)
(* RRSet the vendor holds has at least one resource record.                *)
(***************************************************************************)
ResourceRecord(data) == [Content |-> <<data>>, Enabled |-> TRUE]

\* ResourceRecord.ContentToString(): the content values joined by spaces
RECURSIVE JoinFields(_)
JoinFields(content) ==
    IF content = <<>> THEN <<>> ELSE Head(content) \o JoinFields(Tail(content))

ContentToString(rr) == JoinFields(rr.Content)

\* the position of the RRSet of (name, type) in the zone, 0 when there is none
FindRRSet(zr, name, type) ==
    IF \E i \in 1..Len(zr) : zr[i].Name = name /\ zr[i].Type = type
    THEN CHOOSE i \in 1..Len(zr) : zr[i].Name = name /\ zr[i].Type = type
    ELSE 0

\* cli.UpdateRRSet: the RRSet of (name, type) is replaced wholesale, or created
UpdateRRSet(zr, name, type, rrSet) ==
    LET i == FindRRSet(zr, name, type)
        e == [Name |-> name, Type |-> type, TTL |-> rrSet.TTL, Records |-> rrSet.Records]
    IN IF i = 0 THEN Append(zr, e) ELSE [zr EXCEPT ![i] = e]

RECURSIVE WithoutValue(_, _)
WithoutValue(records, data) ==
    IF records = <<>> THEN <<>>
    ELSE IF ContentToString(Head(records)) = data THEN WithoutValue(Tail(records), data)
    ELSE <<Head(records)>> \o WithoutValue(Tail(records), data)

RemoveAt(s, i) == SubSeq(s, 1, i - 1) \o SubSeq(s, i + 1, Len(s))

\* cli.DeleteRRSetRecord on an RRSet that exists: the value is taken out, and
\* the RRSet with it when no value is left
DeleteRRSetRecord(zr, name, type, data) ==
    LET i == FindRRSet(zr, name, type)
        left == WithoutValue(zr[i].Records, data)
    IN IF left = <<>> THEN RemoveAt(zr, i) ELSE [zr EXCEPT ![i].Records = left]

NotFound == "404: record is not found"
VendorError == "500: vendor error"

NoErr == [msg |-> "", record |-> <<>>]
ErrOf(msg) == [msg |-> msg, record |-> <<>>]
NilResult == [nil |-> TRUE, records |-> <<>>]
Result(records) == [nil |-> FALSE, records |-> records]

\* one call on the vendor client, as the call log keeps it: the call and its
\* name and type arguments, the error it returned ("" for none), the RRSet it
\* returned (RRSet) or was given (UpdateRRSet), and the position in the batch
\* of the record it was made for
NoRRSet == [Type |-> "", TTL |-> 0, Records |-> <<>>]
VCall(call, i, name, type, e, rrSet) ==
    [call |-> call, i |-> i, Name |-> name, Type |-> type, err |-> e, rrSet |-> rrSet]

(***************************************************************************)
(* provider.go: the read-modify-write of one RRSet                         *)
(***************************************************************************)
\* an RRSet created with the record's duration as its TTL, not its seconds
NewRRSetRawTTL(rr) ==
    [Type |-> rr.Type, TTL |-> rr.TTL, Records |-> <<ResourceRecord(rr.Data)>>]

\* lines 368-377: the RRSet created when the vendor has none
NewRRSet(rr) ==
    [Type |-> rr.Type, TTL |-> rr.TTL \div Second, Records |-> <<ResourceRecord(rr.Data)>>]

\* lines 387-396 and 429-438: the range is over the fetched entries; each one
\* that differs from the value appends the value
RECURSIVE MergeLoop(_, _, _, _)
MergeLoop(fetched, i, records, data) ==
    IF i > Len(fetched) THEN records
    ELSE IF ContentToString(fetched[i]) = data
         THEN MergeLoop(fetched, i + 1, records, data)
         ELSE MergeLoop(fetched, i + 1, Append(records, ResourceRecord(data)), data)

\* a merge that replaces the fetched entries by the new value
MergeReplace(rrSet, data) == [rrSet EXCEPT !.Records = <<ResourceRecord(data)>>]

Merge(rrSet, data) ==
    [rrSet EXCEPT !.Records = MergeLoop(rrSet.Records, 1, rrSet.Records, data)]

\* cli.RRSet: the RRSet of a zone entry as the client returns it
FetchedRRSet(e) == [Type |-> e.Type, TTL |-> e.TTL, Records |-> e.Records]

UnqualifyAll(records, zone) ==
    [i \in 1..Len(records) |-> unqualifyRecordNames(records[i], zone)]

(***************************************************************************)
(* The inputs of the model.                                                *)
(***************************************************************************)
Zone == <<"z", ".">>
W == <<"w">>
WZ == <<"w", ".", "z", ".">>
Hello == <<"hello">>
CAAData == <<"0", "issue", "ca">>

\* the records callers pass: zone-relative names, the shapes libdns builds,
\* and a record of a type outside the six shapes
ProvRecords ==
    { Address(W, 300 * Second, "1.2.3.4"),
      Address(W, 1500, "5.6.7.8"),
      Address(At, 300 * Second, "1.2.3.4"),
      RRrec(W, 300 * Second, "CAA", CAAData) }

Batches == UNION {[1..n -> ProvRecords] : n \in 1..MaxBatch}

ZoneEntry(name, type, ttl, values) ==
    [Name |-> name, Type |-> type, TTL |-> ttl,
     Records |-> [i \in 1..Len(values) |-> [Content |-> values[i], Enabled |-> TRUE]]]

\* the zones the calls start from
InitZones ==
    { <<>>,
      <<ZoneEntry(WZ, "A", 300, << <<<<"5.6.7.8">>>>, <<<<"9.9.9.9">>>> >>)>>,
      <<ZoneEntry(WZ, "A", 60, << <<<<"1.2.3.4">>>> >>),
        ZoneEntry(WZ, "TXT", 60, << <<Hello>> >>)>>,
      <<ZoneEntry(Zone, "MX", 300, << <<<<"10">>, <<"m.z.">>>> >>),
        ZoneEntry(WZ, "CAA", 300, << <<CAAData>> >>),
        ZoneEntry(<<"_", "s", ".", "_", "t", ".">> \o WZ, "SRV", 300,
                  << <<<<"1">>, <<"2">>, <<"3">>, <<"m.z.">>>> >>)>> }

(***************************************************************************)
(* provider.go: the four operations, one step per loop iteration           *)
(***************************************************************************)
Idle == pc = "idle" /\ nops < MaxOps

Start(name, batch, w, first) ==
    /\ op' = name
    /\ pc' = first
    /\ input' = batch
    /\ work' = w
    /\ idx' = 1
    /\ acc' = <<>>
    /\ ret' = NilResult
    /\ err' = NoErr
    /\ log' = <<>>
    /\ pre' = zoneRecords
    /\ nops' = nops + 1
    /\ UNCHANGED <<zoneRecords, nameVars, concVars>>

QualifyAll(batch, zone) ==
    [i \in 1..Len(batch) |-> qualityRecordNames(batch[i], zone)]

\* lines 356-363: the records grouped by type; the groups are visited in the
\* order of a map iteration, which the language leaves open
GroupedOrders(q) ==
    LET n == Len(q)
        perms == {f \in [1..n -> 1..n] : \A i, j \in 1..n : i # j => f[i] # f[j]}
        type(f, k) == RR(q[f[k]]).Type
        grouped(f) ==
            /\ \A a, b \in 1..n : a < b /\ type(f, a) = type(f, b) => f[a] < f[b]
            /\ \A a, b, c \in 1..n :
                    a < b /\ b < c /\ type(f, a) = type(f, c) => type(f, b) = type(f, a)
    IN {[k \in 1..n |-> q[f[k]]] : f \in {g \in perms : grouped(g)}}

\* the end of a step: an error return, or the next iteration, or the return
Fail(e, calls) ==
    /\ pc' = "done"
    /\ err' = e
    /\ ret' = NilResult
    /\ log' = log \o calls
    /\ UNCHANGED <<idx, acc>>

Continue(record, calls) ==
    /\ log' = log \o calls
    /\ acc' = Append(acc, record)
    /\ err' = NoErr
    /\ IF idx = Len(work)
       THEN /\ pc' = "done"
            /\ ret' = Result(UnqualifyAll(Append(acc, record), Zone))
            /\ idx' = idx
       ELSE /\ pc' = "run"
            /\ ret' = NilResult
            /\ idx' = idx + 1

\* cli.UpdateRRSet fails when the vendor fails, and (the model's cap on the
\* size of an RRSet) when the RRSet holds more than MaxRRLen entries
PushFails(rrSet, vendorFails) == vendorFails \/ Len(rrSet.Records) > MaxRRLen

\* lines 378-381 and 398-401, 440-444: push the RRSet, then count the record in
Push(record, rrSet, fetch, vendorFails) ==
    LET rr == RR(record)
        bad == PushFails(rrSet, vendorFails)
        call == VCall("UpdateRRSet", idx, rr.Name, rr.Type,
                      IF bad THEN VendorError ELSE "", rrSet)
    IN IF bad
       THEN /\ Fail(ErrOf(VendorError), <<fetch, call>>)
            /\ UNCHANGED zoneRecords
       ELSE /\ zoneRecords' = UpdateRRSet(zoneRecords, rr.Name, rr.Type, rrSet)
            /\ Continue(record, <<fetch, call>>)

CallAppendRecords ==
    /\ Idle
    /\ \E batch \in Batches :
         \E w \in GroupedOrders(QualifyAll(batch, Zone)) :
            Start("AppendRecords", batch, w, "run")
    /\ lastAppend' = <<>>

\* an AppendRecords that takes every fetch error for "not found"
AppendStepAnyErr ==
    /\ op = "AppendRecords" /\ pc = "run"
    /\ LET record == work[idx]
           rr == RR(record)
           i == FindRRSet(zoneRecords, rr.Name, rr.Type)
       IN \E fetchFails, pushFails \in BOOLEAN :
            IF fetchFails
            THEN Push(record, NewRRSet(rr),
                      VCall("RRSet", idx, rr.Name, rr.Type, VendorError, NoRRSet), pushFails)
            ELSE IF i = 0
            THEN Push(record, NewRRSet(rr),
                      VCall("RRSet", idx, rr.Name, rr.Type, NotFound, NoRRSet), pushFails)
            ELSE Push(record, Merge(FetchedRRSet(zoneRecords[i]), rr.Data),
                      VCall("RRSet", idx, rr.Name, rr.Type, "", FetchedRRSet(zoneRecords[i])),
                      pushFails)
    /\ lastAppend' = IF pc' = "done" /\ ~ret'.nil THEN input ELSE <<>>
    /\ UNCHANGED <<op, input, work, pre, nops, nameVars, concVars>>

\* lines 364-402: one record of AppendRecords
AppendStep ==
    /\ op = "AppendRecords" /\ pc = "run"
    /\ LET record == work[idx]
           rr == RR(record)
           i == FindRRSet(zoneRecords, rr.Name, rr.Type)
       IN \E fetchFails, pushFails \in BOOLEAN :
            IF fetchFails
            THEN /\ Fail(ErrOf(VendorError),
                         <<VCall("RRSet", idx, rr.Name, rr.Type, VendorError, NoRRSet)>>)
                 /\ UNCHANGED zoneRecords
            ELSE IF i = 0
            THEN Push(record, NewRRSet(rr),
                      VCall("RRSet", idx, rr.Name, rr.Type, NotFound, NoRRSet), pushFails)
            ELSE Push(record, Merge(FetchedRRSet(zoneRecords[i]), rr.Data),
                      VCall("RRSet", idx, rr.Name, rr.Type, "", FetchedRRSet(zoneRecords[i])),
                      pushFails)
    /\ lastAppend' = IF pc' = "done" /\ ~ret'.nil THEN input ELSE <<>>
    /\ UNCHANGED <<op, input, work, pre, nops, nameVars, concVars>>

CallSetRecords ==
    /\ Idle
    /\ \E batch \in Batches : Start("SetRecords", batch, QualifyAll(batch, Zone), "run")
    /\ lastAppend' = <<>>

\* lines 423-445: one record of SetRecords
SetStep ==
    /\ op = "SetRecords" /\ pc = "run"
    /\ LET record == work[idx]
           rr == RR(record)
           i == FindRRSet(zoneRecords, rr.Name, rr.Type)
       IN \E fetchFails, pushFails \in BOOLEAN :
            IF fetchFails \/ i = 0
            THEN LET e == IF fetchFails THEN VendorError ELSE NotFound IN
                 /\ Fail(ErrOf(e), <<VCall("RRSet", idx, rr.Name, rr.Type, e, NoRRSet)>>)
                 /\ UNCHANGED zoneRecords
            ELSE Push(record, Merge(FetchedRRSet(zoneRecords[i]), rr.Data),
                      VCall("RRSet", idx, rr.Name, rr.Type, "", FetchedRRSet(zoneRecords[i])),
                      pushFails)
    /\ UNCHANGED <<op, input, work, pre, nops, lastAppend, nameVars, concVars>>

CallDeleteRecords ==
    /\ Idle
    /\ \E batch \in Batches : Start("DeleteRecords", batch, QualifyAll(batch, Zone), "run")
    /\ lastAppend' = <<>>

\* a DeleteRecords that goes on to the next record after a failed delete
DeleteStepOn ==
    /\ op = "DeleteRecords" /\ pc = "run"
    /\ LET record == work[idx]
           rr == RR(record)
           i == FindRRSet(zoneRecords, rr.Name, rr.Type)
       IN \E vendorFails \in BOOLEAN :
            LET bad == vendorFails \/ i = 0
                call == VCall("DeleteRRSetRecord", idx, rr.Name, rr.Type,
                              IF vendorFails THEN VendorError
                              ELSE IF i = 0 THEN NotFound ELSE "", NoRRSet)
            IN /\ zoneRecords' = IF bad THEN zoneRecords
                                 ELSE DeleteRRSetRecord(zoneRecords, rr.Name, rr.Type, rr.Data)
               /\ Continue(record, <<call>>)
    /\ UNCHANGED <<op, input, work, pre, nops, lastAppend, nameVars, concVars>>

\* lines 464-469: one record of DeleteRecords.  The delete fails when the
\* vendor has no RRSet of the record's name and type, or when the vendor fails
DeleteStep ==
    /\ op = "DeleteRecords" /\ pc = "run"
    /\ LET record == work[idx]
           rr == RR(record)
           i == FindRRSet(zoneRecords, rr.Name, rr.Type)
       IN \E vendorFails \in BOOLEAN :
            LET bad == vendorFails \/ i = 0
                call == VCall("DeleteRRSetRecord", idx, rr.Name, rr.Type,
                              IF vendorFails THEN VendorError
                              ELSE IF i = 0 THEN NotFound ELSE "", NoRRSet)
            IN IF bad
               THEN /\ Fail([msg |-> "failed to delete record", record |-> <<record>>],
                            <<call>>)
                    /\ UNCHANGED zoneRecords
               ELSE /\ zoneRecords' =
                          DeleteRRSetRecord(zoneRecords, rr.Name, rr.Type, rr.Data)
                    /\ Continue(record, <<call>>)
    /\ UNCHANGED <<op, input, work, pre, nops, lastAppend, nameVars, concVars>>

CallGetRecords ==
    /\ Idle
    /\ Start("GetRecords", <<>>, <<>>, "zone")
    /\ UNCHANGED lastAppend

\* lines 320-325: cli.Zone, the zone's record index
GetZone ==
    /\ op = "GetRecords" /\ pc = "zone"
    /\ \E vendorFails \in BOOLEAN :
         LET call == VCall("Zone", 0, Zone, "",
                           IF vendorFails THEN VendorError ELSE "", NoRRSet) IN
         IF vendorFails
         THEN /\ Fail(ErrOf(VendorError), <<call>>)
              /\ UNCHANGED work
         ELSE /\ work' = [i \in 1..Len(zoneRecords) |->
                            [Name |-> zoneRecords[i].Name, Type |-> zoneRecords[i].Type,
                             TTL |-> zoneRecords[i].TTL]]
              /\ log' = log \o <<call>>
              /\ UNCHANGED <<idx, acc, err>>
              /\ IF zoneRecords = <<>>
                 THEN pc' = "done" /\ ret' = Result(<<>>)
                 ELSE pc' = "run" /\ ret' = NilResult
    /\ UNCHANGED <<zoneRecords, op, input, pre, nops, lastAppend, nameVars, concVars>>

\* lines 331-338: each value of the RRSet overwrites records[i]
LastRecord(gcoreRecord, records) ==
    RRrec(gcoreRecord.Name, gcoreRecord.TTL * Second, gcoreRecord.Type,
          ContentToString(records[Len(records)]))

\* lines 326-345: one index entry of GetRecords
GetStep ==
    /\ op = "GetRecords" /\ pc = "run"
    /\ LET gcoreRecord == work[idx]
           i == FindRRSet(zoneRecords, gcoreRecord.Name, gcoreRecord.Type)
       IN \E vendorFails \in BOOLEAN :
            IF vendorFails \/ i = 0
            THEN LET e == IF vendorFails THEN VendorError ELSE NotFound IN
                 Fail(ErrOf(e),
                      <<VCall("RRSet", idx, gcoreRecord.Name, gcoreRecord.Type, e, NoRRSet)>>)
            ELSE Continue(LastRecord(gcoreRecord, zoneRecords[i].Records),
                          <<VCall("RRSet", idx, gcoreRecord.Name, gcoreRecord.Type, "",
                                  FetchedRRSet(zoneRecords[i]))>>)
    /\ UNCHANGED <<zoneRecords, op, input, work, pre, nops, lastAppend, nameVars, concVars>>

\* the call has returned and its locals are gone; the caller may make the
\* next call
Return ==
    /\ pc = "done"
    /\ pc' = "idle"
    /\ op' = "idle" /\ input' = <<>> /\ work' = <<>> /\ idx' = 0 /\ acc' = <<>>
    /\ ret' = NilResult /\ err' = NoErr /\ log' = <<>> /\ pre' = <<>>
    /\ UNCHANGED <<zoneRecords, nops, lastAppend, nameVars, concVars>>

NamesIdle ==
    /\ nZone = <<>> /\ nIn = <<>> /\ nQ = <<>> /\ nOut = <<>> /\ nPhase = "off"

ConcIdle ==
    /\ cStore = <<>> /\ cOp = <<>> /\ cPc = <<>> /\ cRRSet = <<>>
    /\ cNotFound = <<>> /\ cOverlap = FALSE

ProvIdle ==
    /\ zoneRecords = <<>> /\ op = "idle" /\ pc = "off" /\ input = <<>> /\ work = <<>>
    /\ idx = 0 /\ acc = <<>> /\ ret = NilResult /\ err = NoErr /\ log = <<>>
    /\ pre = <<>> /\ nops = 0 /\ lastAppend = <<>>

Init ==
    /\ zoneRecords \in InitZones
    /\ op = "idle" /\ pc = "idle" /\ input = <<>> /\ work = <<>>
    /\ idx = 0 /\ acc = <<>> /\ ret = NilResult /\ err = NoErr /\ log = <<>>
    /\ pre = <<>> /\ nops = 0 /\ lastAppend = <<>>
    /\ NamesIdle
    /\ ConcIdle

Next ==
    \/ CallGetRecords \/ GetZone \/ GetStep
    \/ CallAppendRecords \/ AppendStep
    \/ CallSetRecords \/ SetStep
    \/ CallDeleteRecords \/ DeleteStep
    \/ Return

Spec == Init /\ [][Next]_vars

(***************************************************************************)
(* Properties of the four operations (specification Spec).                 *)
(***************************************************************************)
\* the number of entries of an RRSet whose string content is the value
Count(records, data) ==
    Cardinality({i \in 1..Len(records) : ContentToString(records[i]) = data})

\* the zone after the successful pushes and deletes of a call log
RECURSIVE Replay(_, _, _)
Replay(zr, calls, w) ==
    IF calls = <<>> THEN zr
    ELSE LET c == Head(calls)
             next == IF c.err # "" THEN zr
                     ELSE IF c.call = "UpdateRRSet"
                          THEN UpdateRRSet(zr, c.Name, c.Type, c.rrSet)
                     ELSE IF c.call = "DeleteRRSetRecord"
                          THEN DeleteRRSetRecord(zr, c.Name, c.Type, RR(w[c.i]).Data)
                     ELSE zr
         IN Replay(next, Tail(calls), w)

Returned == pc = "done"
Succeeded == Returned /\ ~ret.nil

\* an RRSet the vendor holds is never empty
VendorRRSetsNonEmpty == \A i \in 1..Len(zoneRecords) : zoneRecords[i].Records # <<>>

\* C1: in AppendRecords, when the fetched RRSet already holds the record's
\* value, the RRSet pushed holds that value exactly as often as the fetched one
C1_AppendDedup ==
    op = "AppendRecords" =>
        \A k \in 1..(Len(log) - 1) :
            (log[k].call = "RRSet" /\ log[k].err = "") =>
                LET data == RR(work[log[k].i]).Data
                    has == Count(log[k].rrSet.Records, data)
                IN has >= 1 => Count(log[k + 1].rrSet.Records, data) = has

\* C2: in AppendRecords, when the vendor reports not-found for the RRSet of a
\* record's fully-qualified name and type, the next call pushes, for that key,
\* an RRSet of the record's type and whole seconds of TTL whose only entry is
\* the record's value, enabled; and a successful call returns the record
C2_AppendCreates ==
    op = "AppendRecords" =>
        \A k \in 1..Len(log) :
            (log[k].call = "RRSet" /\ log[k].err = NotFound) =>
                \E j \in 1..Len(input) :
                    LET rr == RR(input[j]) IN
                    /\ rr.Type = log[k].Type
                    /\ rr.Type \in SupportedTypes => log[k].Name = AbsoluteName(rr.Name, Zone)
                    /\ k < Len(log)
                    /\ log[k + 1].call = "UpdateRRSet"
                    /\ log[k + 1].Name = log[k].Name
                    /\ log[k + 1].Type = log[k].Type
                    /\ log[k + 1].rrSet.Type = rr.Type
                    /\ log[k + 1].rrSet.TTL * Second <= rr.TTL
                    /\ rr.TTL < (log[k + 1].rrSet.TTL + 1) * Second
                    /\ log[k + 1].rrSet.Records =
                            <<[Content |-> <<rr.Data>>, Enabled |-> TRUE]>>
                    /\ Succeeded => ret.records[log[k].i] = input[j]

\* C2 witness: a successful AppendRecords created the RRSet of a record whose
\* TTL of 1.5 s was pushed as 1 second
C2_Witness ==
    /\ op = "AppendRecords" /\ Succeeded
    /\ \E k \in 1..(Len(log) - 1) :
          /\ log[k].call = "RRSet" /\ log[k].err = NotFound
          /\ log[k + 1].rrSet.TTL = 1
          /\ FindRRSet(zoneRecords, log[k].Name, log[k].Type) # 0

\* C4: in DeleteRecords a failed delete is the last vendor call of the batch;
\* the call returns the error naming the record it failed on and no list, and
\* the zone is the one the earlier deletes of the batch left
C4_DeleteAborts ==
    op = "DeleteRecords" =>
        \A k \in 1..Len(log) :
            log[k].err # "" =>
                /\ k = Len(log)
                /\ Returned
                /\ err = [msg |-> "failed to delete record", record |-> <<work[k]>>]
                /\ ret = NilResult
                /\ \A j \in 1..(k - 1) : log[j].i = j /\ log[j].err = ""
                /\ zoneRecords = Replay(pre, SubSeq(log, 1, k - 1), work)

\* C4 witness: the second delete of a batch failed after the first had taken
\* a value out of the zone
C4_Witness ==
    /\ op = "DeleteRecords" /\ Returned
    /\ Len(log) = 2 /\ log[1].err = "" /\ log[2].err = NotFound
    /\ zoneRecords # pre
    /\ err.record = <<work[2]>>

\* C5: after a successful AppendRecords of a record of a supported shape
\* the RRSet of its qualified name and type holds its value, and the GetRecords
\* that follows returns a record with its name, type and value
C5_AppendThenList ==
    /\ (op = "AppendRecords" /\ Succeeded) =>
          \A j \in 1..Len(input) :
              LET rr == RR(input[j])
                  i == FindRRSet(zoneRecords, AbsoluteName(rr.Name, Zone), rr.Type)
              IN rr.Type \in SupportedTypes =>
                    i # 0 /\ Count(zoneRecords[i].Records, rr.Data) >= 1
    /\ (op = "GetRecords" /\ Succeeded) =>
          \A j \in 1..Len(lastAppend) :
              LET rr == RR(lastAppend[j]) IN
              rr.Type \in SupportedTypes =>
                  \E p \in 1..Len(ret.records) :
                      /\ RR(ret.records[p]).Name = rr.Name
                      /\ RR(ret.records[p]).Type = rr.Type
                      /\ RR(ret.records[p]).Data = rr.Data

\* C6: SetRecords, when the vendor itself does not fail, creates the RRSet of
\* a record whose name and type had none and returns the record
C6_SetCreates ==
    (op = "SetRecords" /\ Returned /\ \A k \in 1..Len(log) : log[k].err # VendorError) =>
        \A j \in 1..Len(work) :
            LET rr == RR(work[j])
                i == FindRRSet(zoneRecords, rr.Name, rr.Type)
            IN FindRRSet(pre, rr.Name, rr.Type) = 0 =>
                  /\ ~ret.nil
                  /\ ret.records[j] = input[j]
                  /\ i # 0
                  /\ Count(zoneRecords[i].Records, rr.Data) >= 1

\* C7: in AppendRecords and SetRecords, when the fetched RRSet has no entry
\* equal to the record's value, the RRSet pushed is the fetched entries, in
\* order, followed by exactly one enabled entry holding the value
C7_MergeAddsOnce ==
    op \in {"AppendRecords", "SetRecords"} =>
        \A k \in 1..(Len(log) - 1) :
            (log[k].call = "RRSet" /\ log[k].err = "") =>
                LET data == RR(work[log[k].i]).Data IN
                Count(log[k].rrSet.Records, data) = 0 =>
                    log[k + 1].rrSet.Records =
                        log[k].rrSet.Records \o <<[Content |-> <<data>>, Enabled |-> TRUE]>>

C9_ListOnePerEntry ==
    (op = "GetRecords" /\ Succeeded) =>
        /\ Len(ret.records) = Len(zoneRecords)
        /\ \A i \in 1..Len(zoneRecords) :
              LET e == zoneRecords[i]
                  rr == RR(ret.records[i])
              IN /\ rr.Type = e.Type
                 /\ rr.TTL = e.TTL * Second
                 /\ rr.Name = RelativeName(e.Name, Zone)
                 /\ rr.Data = ContentToString(e.Records[Len(e.Records)])

(***************************************************************************)
(* The name helpers on one record (specification SpecNames): a record of   *)
(* one of the six shapes with a zone-relative name is qualified against a  *)
(* zone and the result unqualified against the same zone.                  *)
(***************************************************************************)
NameZones == {Zone, <<"z">>, WZ}
RelNames == {At, W, <<"z">>, <<"a", ".", "w">>}
NameTTLs == {0, 1500}
Target1 == <<"m.z.">>

NameInputs ==
    UNION { {Address(n, t, ip) : ip \in {"1.2.3.4", "::1", InvalidIP}}
                \cup {CNAME(n, t, Target1), NS(n, t, Target1)}
                \cup {TXT(n, t, text) : text \in {Hello, <<"two", "words">>}}
                \cup {MX(n, t, pref, Target1) : pref \in {0, 10}}
                \cup {SRV(n, t, <<"s">>, <<"t">>, 1, 2, Target1, 3)}
            : n \in RelNames, t \in NameTTLs }

InitNames ==
    /\ nZone \in NameZones
    /\ nIn \in NameInputs
    /\ nQ = <<>> /\ nOut = <<>> /\ nPhase = "in"
    /\ ProvIdle
    /\ ConcIdle

Qualify ==
    /\ nPhase = "in"
    /\ nQ' = qualityRecordNames(nIn, nZone)
    /\ nPhase' = "qualified"
    /\ UNCHANGED <<nZone, nIn, nOut, provVars, concVars>>

Unqualify ==
    /\ nPhase = "qualified"
    /\ nOut' = unqualifyRecordNames(nQ, nZone)
    /\ nPhase' = "done"
    /\ UNCHANGED <<nZone, nIn, nQ, provVars, concVars>>

NextNames == Qualify \/ Unqualify

SpecNames == InitNames /\ [][NextNames]_vars

\* C3: unqualifying the qualified record gives back the original name, and
\* the record's type, TTL and value payload are unchanged
C3_RoundTrip ==
    nPhase = "done" =>
        /\ nOut.Name = nIn.Name
        /\ RR(nOut).Name = RR(nIn).Name
        /\ RR(nOut).Type = RR(nIn).Type
        /\ RR(nOut).TTL = RR(nIn).TTL
        /\ RR(nOut).Data = RR(nIn).Data
        /\ nOut = nIn

\* C3 witness: an SRV record at the apex went to the zone's name and back
C3_Witness ==
    /\ nPhase = "done"
    /\ nIn.shape = "SRV" /\ nIn.Name = At
    /\ nQ.Name = nZone
    /\ nOut.Name = At

(***************************************************************************)
(* Two callers at once on one RRSet (specification SpecConc): each makes   *)
(* one AppendRecords or SetRecords call with one record; the steps are the *)
(* vendor calls, fetch and push.                                           *)
(***************************************************************************)
Callers == {1, 2}
CallerRecord(p) ==
    qualityRecordNames(Address(W, 300 * Second, IF p = 1 THEN "1.2.3.4" ELSE "5.6.7.8"),
                       Zone)

ConcZones ==
    { <<>>,
      <<ZoneEntry(WZ, "A", 300, << <<<<"9.9.9.9">>>> >>)>>,
      <<ZoneEntry(WZ, "A", 300, << <<<<"1.2.3.4">>>> >>)>>,
      <<ZoneEntry(WZ, "A", 300, << <<<<"9.9.9.9">>>>, <<<<"5.6.7.8">>>> >>)>> }

InitConc ==
    /\ cStore \in ConcZones
    /\ cOp \in [Callers -> {"AppendRecords", "SetRecords"}]
    /\ cPc = [p \in Callers |-> "fetch"]
    /\ cRRSet = [p \in Callers |-> NoRRSet]
    /\ cNotFound = [p \in Callers |-> FALSE]
    /\ cOverlap = FALSE
    /\ ProvIdle
    /\ NamesIdle

\* lines 365-396 and 424-438: cli.RRSet and the merge into the local RRSet
ConcFetch(p) ==
    /\ cPc[p] = "fetch"
    /\ LET rr == RR(CallerRecord(p))
           i == FindRRSet(cStore, rr.Name, rr.Type)
       IN \E vendorFails \in BOOLEAN :
            IF vendorFails \/ (i = 0 /\ cOp[p] = "SetRecords")
            THEN /\ cPc' = [cPc EXCEPT ![p] = "error"]
                 /\ UNCHANGED cRRSet
            ELSE /\ cPc' = [cPc EXCEPT ![p] = "push"]
                 /\ cRRSet' = [cRRSet EXCEPT ![p] =
                        IF i = 0 THEN NewRRSet(rr)
                        ELSE Merge(FetchedRRSet(cStore[i]), rr.Data)]
    /\ cNotFound' = [cNotFound EXCEPT
                        ![p] = FindRRSet(cStore, RR(CallerRecord(p)).Name,
                                         RR(CallerRecord(p)).Type) = 0]
    /\ cOverlap' = (cOverlap \/ \E q \in Callers \ {p} : cPc[q] = "push")
    /\ UNCHANGED <<cStore, cOp, provVars, nameVars>>

\* lines 378 and 398, 440: cli.UpdateRRSet with the local RRSet
ConcPush(p) ==
    /\ cPc[p] = "push"
    /\ LET rr == RR(CallerRecord(p)) IN
       \E vendorFails \in BOOLEAN :
            IF vendorFails
            THEN /\ cPc' = [cPc EXCEPT ![p] = "error"]
                 /\ UNCHANGED cStore
            ELSE /\ cPc' = [cPc EXCEPT ![p] = "returned"]
                 /\ cStore' = UpdateRRSet(cStore, rr.Name, rr.Type, cRRSet[p])
    /\ UNCHANGED <<cOp, cRRSet, cNotFound, cOverlap, provVars, nameVars>>

NextConc == \E p \in Callers : ConcFetch(p) \/ ConcPush(p)

SpecConc == InitConc /\ [][NextConc]_vars

BothReturned == \A p \in Callers : cPc[p] = "returned"

Holds(zr, p) ==
    LET rr == RR(CallerRecord(p))
        i == FindRRSet(zr, rr.Name, rr.Type)
    IN i # 0 /\ Count(zr[i].Records, rr.Data) >= 1

\* C10: when the two calls ran one after the other and both returned success,
\* the RRSet holds both values (an interleaving that loses one is C10_Witness)
C10_SequentialKeepsBoth ==
    (BothReturned /\ ~cOverlap) => \A p \in Callers : Holds(cStore, p)

\* C10 witness: both calls fetched the same existing RRSet, both returned
\* success, and the RRSet lacks one of the two values
C10_Witness ==
    /\ BothReturned
    /\ cOverlap
    /\ \A p \in Callers : ~cNotFound[p]
    /\ \E p \in Callers : ~Holds(cStore, p)

====
